---- MODULE Spec2Model ----
(***************************************************************************)
(* Model of vi.py: the download workers (DownloadWorker,                   *)
(* InstagramDownloadWorker, TikTokDownloadWorker) and the slots of         *)
(* SocialMediaDownloader that drive them.                                  *)
(*                                                                         *)
(* The destination directory, the hash index file and the worker objects   *)
(* are state.  Instaloader (download_post, the search calls, login) is the *)
(* content source: each call returns or raises, chosen by \E, and the      *)
(* names it gives the files it writes are its own (file_names).            *)
(***************************************************************************)
EXTENDS Integers, Sequences, FiniteSets, TLC

\* ------------------------------------------------------------------ bounds
MaxRuns == 3        \* run() invocations of one worker (start / resume after login)
MaxStops == 2       \* calls of stop()

Workers == {1, 2}   \* worker objects constructed one after the other

\* --------------------------------------------------------- content source
\* The search result of the stubbed content source.  p1 is a photo; p2 is
\* a photo post of two files whose MD5 digests have the same first 8 hex
\* digits; p3 is a video that holds the bytes of p1 again.
Posts ==
  << [shortcode |-> "p1", is_video |-> FALSE,
      files |-> << [ext |-> "jpg", bytes |-> 1] >>],
     [shortcode |-> "p2", is_video |-> FALSE,
      files |-> << [ext |-> "jpg", bytes |-> 2],
                   [ext |-> "jpg", bytes |-> 3] >>],
     [shortcode |-> "p3", is_video |-> TRUE,
      files |-> << [ext |-> "mp4", bytes |-> 1] >>] >>

NPosts == Len(Posts)
PostIds == 1..NPosts

\* hashlib.md5(...).hexdigest(): <<first 8 hex digits, remaining digits>>.
\* Different bytes give different digests; the digests of 2 and 3 agree on
\* the first 8 digits.
calculate_hash(bytes) == << (bytes + 2) \div 2, bytes % 2 >>

\* file_hash[:8]
Prefix8(h) == h[1]

\* A name that starts with file_pattern (lines 262-264),
\* "<date_utc>_<shortcode>", for file i of post k.
TempName(k, i) == << "tmp", Posts[k].shortcode, i, Posts[k].files[i].ext >>

\* A name that does not start with file_pattern, for file i of post k: the
\* library's own pattern, "<date_utc>_UTC...".
LibName(k, i) == << "utc", Posts[k].shortcode, i, Posts[k].files[i].ext >>

\* new_name: f"instagram_{post.shortcode}_{file_hash[:8]}{ext}"
NewName(k, i, h) ==
  << "instagram", Posts[k].shortcode, Prefix8(h), Posts[k].files[i].ext >>

MaxRetries == 3     \* max_retries of handle_rate_limit
FirstDelay == 60    \* delay of handle_rate_limit

EmptyIndex == [h \in {} |-> [shortcode |-> "", type |-> "", file_path |-> <<>>]]

\* What the index file holds when the program starts: nothing (no file), the
\* JSON object save_hashes wrote, text that is not JSON (json.load raises
\* JSONDecodeError), or bytes that are not UTF-8, as a file cut inside a
\* multi-byte character is (reading it raises UnicodeDecodeError).
IndexTexts == {"json", "garbage", "bad_utf8"}

\* ---------------------------------------------------------------- state
VARIABLES
  os_name,            \* "posix" or "nt": decides os.rename onto an existing name
  file_names,         \* whether the names download_post writes start with file_pattern
  dir,                \* download_path: file name -> bytes (index file apart)
  hash_file,          \* <platform>_downloaded_hashes.json: [exists, text, data]
  \* worker objects
  pc,                 \* position of the worker's thread in run()
  is_running,         \* DownloadWorker.is_running
  downloaded_hashes,  \* DownloadWorker.downloaded_hashes
  logged_in,          \* self.L.context.is_logged_in
  session,            \* the session installed in self.L: "none", "valid", "expired"
  session_file,       \* <username>_instagram_session: "absent", or the session it holds
  download_videos,    \* InstagramDownloadWorker.download_videos
  total_downloaded,   \* local of run()
  cur,                \* index of the post the for loop is at
  todo,               \* downloaded_files still to be processed: set of file indexes
  rl_retry, rl_delay, \* locals of handle_rate_limit
  \* signals
  gui_queue,          \* queued login_required / finished signals: Seq of <<signal, worker>>
  n_finished,         \* finished.emit() calls of the worker
  \* GUI
  instagram_worker,   \* SocialMediaDownloader.instagram_worker (0 is None)
  insta_download_button, insta_stop_button,
  gui_pc,             \* "idle", "dialog" (LoginDialog.exec_), "aborted"
  \* history
  runs,               \* number of run() invocations of the worker
  stop_calls,         \* number of stop() calls on the worker
  stop_pc, stop_cur,  \* pc and cur of the worker when stop() was first called on it
  attempts,           \* download_post calls per post in the current run
  result,             \* what became of each post in the current run
  raised,             \* <<post, kind>> of the exception download_post just raised
  waits,              \* sleeps completed by handle_rate_limit: [asked, slept] seconds
  dir_at_start,       \* names in dir when the worker was constructed
  keys_at_start,      \* keys of the index the worker loaded
  rerun,              \* the worker repeats, with its settings, a job that ran to its end
  errors,             \* what error.emit was called for: posts of the run, "search", "login"
  \* TikTok tab
  tiktok_worker,      \* SocialMediaDownloader.tiktok_worker (0 is None)
  tiktok_pc,          \* position of the TikTok worker's thread in run()
  tiktok_is_running,  \* DownloadWorker.is_running of the TikTok worker
  keyword_or_url,     \* TikTokDownloadWorker.keyword_or_url
  download_type,      \* TikTokDownloadWorker.download_type
  tiktok_download_button, tiktok_stop_button, tiktok_search_input,
  tiktok_log_text,    \* lines of the TikTok log widget
  tiktok_queue,       \* signals of the TikTok worker queued to the GUI thread
  tiktok_signals,     \* signals the current TikTok run has emitted, in order
  tiktok_calls,       \* calls the current TikTok run has made to the content source
  \* the search retry loop of TikTokDownloadWorker.run (lines 379-419)
  search_pc,          \* position in the loop
  keyword,            \* what self.keyword is: a "#hashtag" or a name
  attempt,            \* loop variable
  posts,              \* local posts: "None", "empty" or "found"
  search_tried,       \* outcome of each attempt made
  search_waits        \* wait_time of each time.sleep made

fsvars == << os_name, file_names, dir, hash_file >>
wvars == << pc, is_running, downloaded_hashes, logged_in, session, session_file,
            download_videos, total_downloaded, cur, todo, rl_retry, rl_delay >>
svars == << gui_queue, n_finished >>
gvars == << instagram_worker, insta_download_button, insta_stop_button, gui_pc >>
hvars == << runs, stop_calls, stop_pc, stop_cur, attempts, result, raised, waits,
            dir_at_start, keys_at_start, rerun, errors >>
tvars == << tiktok_worker, tiktok_pc, tiktok_is_running, keyword_or_url, download_type,
            tiktok_download_button, tiktok_stop_button, tiktok_search_input,
            tiktok_log_text, tiktok_queue, tiktok_signals, tiktok_calls >>
lvars == << search_pc, keyword, attempt, posts, search_tried, search_waits >>
vars == << fsvars, wvars, svars, gvars, hvars, tvars, lvars >>

NoResult == [k \in PostIds |-> "none"]
NoAttempts == [k \in PostIds |-> 0]
NoRaise == << 0, "none" >>

Init ==
  /\ os_name \in {"posix", "nt"}
  /\ file_names \in {"pattern", "other"}
  /\ dir = << >>
  /\ hash_file \in { [exists |-> FALSE, text |-> "json", data |-> EmptyIndex] }
                   \cup { [exists |-> TRUE, text |-> t, data |-> EmptyIndex] :
                            t \in IndexTexts \ {"json"} }
  /\ pc = [w \in Workers |-> "none"]
  /\ is_running = [w \in Workers |-> FALSE]
  /\ downloaded_hashes = [w \in Workers |-> EmptyIndex]
  /\ logged_in = [w \in Workers |-> FALSE]
  /\ session = [w \in Workers |-> "none"]
  /\ session_file = "absent"
  /\ download_videos = [w \in Workers |-> TRUE]
  /\ total_downloaded = [w \in Workers |-> 0]
  /\ cur = [w \in Workers |-> 0]
  /\ todo = [w \in Workers |-> {}]
  /\ rl_retry = [w \in Workers |-> 0]
  /\ rl_delay = [w \in Workers |-> 0]
  /\ gui_queue = << >>
  /\ n_finished = [w \in Workers |-> 0]
  /\ instagram_worker = 0
  /\ insta_download_button = TRUE
  /\ insta_stop_button = FALSE
  /\ gui_pc = "idle"
  /\ runs = [w \in Workers |-> 0]
  /\ stop_calls = [w \in Workers |-> 0]
  /\ stop_pc = [w \in Workers |-> "never"]
  /\ stop_cur = [w \in Workers |-> 0]
  /\ attempts = [w \in Workers |-> NoAttempts]
  /\ result = [w \in Workers |-> NoResult]
  /\ raised = [w \in Workers |-> NoRaise]
  /\ waits = [w \in Workers |-> << >>]
  /\ dir_at_start = [w \in Workers |-> {}]
  /\ keys_at_start = [w \in Workers |-> {}]
  /\ rerun = [w \in Workers |-> FALSE]
  /\ errors = [w \in Workers |-> {}]
  /\ tiktok_worker = 0
  /\ tiktok_pc = "none"
  /\ tiktok_is_running = FALSE
  /\ keyword_or_url = ""
  /\ download_type = "keyword"
  /\ tiktok_download_button = TRUE
  /\ tiktok_stop_button = FALSE
  /\ tiktok_search_input = TRUE
  /\ tiktok_log_text = << >>
  /\ tiktok_queue = << >>
  /\ tiktok_signals = << >>
  /\ tiktok_calls = << >>
  /\ search_pc = "none"
  /\ keyword = ""
  /\ attempt = 0
  /\ posts = "None"
  /\ search_tried = << >>
  /\ search_waits = << >>

\* ------------------------------------------------------------- helpers
\* dir with name n removed
RemoveFile(d, n) == [m \in DOMAIN d \ {n} |-> d[m]]

\* dir with name n holding bytes b (created or overwritten)
WriteFile(d, n, b) == [m \in DOMAIN d \cup {n} |-> IF m = n THEN b ELSE d[m]]

\* name of file i of post k as download_post writes it
DownloadName(k, i) == IF file_names = "pattern" THEN TempName(k, i) ELSE LibName(k, i)

\* files written by self.L.download_post(post, target=self.download_path)
PostTempNames(k) == { DownloadName(k, i) : i \in 1..Len(Posts[k].files) }

WritePost(d, k) ==
  [m \in DOMAIN d \cup PostTempNames(k) |->
     IF m \in PostTempNames(k)
     THEN Posts[k].files[CHOOSE i \in 1..Len(Posts[k].files) : m = DownloadName(k, i)].bytes
     ELSE d[m]]

\* downloaded_files: os.listdir(...) filtered by startswith(file_pattern)
ListPattern(d, k) == { i \in 1..Len(Posts[k].files) : TempName(k, i) \in DOMAIN d }

\* DownloadWorker.load_hashes raises: only json.JSONDecodeError is caught
\* (line 95); the UnicodeDecodeError of f.read() is not.
load_raises(f) == f.exists /\ f.text = "bad_utf8"

\* load_hashes that ignores the file
load_hashes_Fresh(f) == EmptyIndex

\* DownloadWorker.load_hashes, when it returns
load_hashes(f) == IF f.exists /\ f.text = "json" THEN f.data ELSE EmptyIndex

\* DownloadWorker.save_hashes
save_hashes(index) == [exists |-> TRUE, text |-> "json", data |-> index]

\* an insert that leaves the index as it is
InsertHash_Noop(index, h, rec) == index

\* self.downloaded_hashes[file_hash] = {...}
InsertHash(index, h, rec) ==
  [g \in DOMAIN index \cup {h} |-> IF g = h THEN rec ELSE index[g]]

\* (is_video and self.download_videos) or (not is_video and self.download_photos)
Wanted(w, k) ==
  \/ Posts[k].is_video /\ download_videos[w]
  \/ ~Posts[k].is_video

\* the process is alive: no unhandled exception has aborted it
Alive == gui_pc # "aborted"

\* signal.emit() of login_required / finished: queued to the GUI thread
Emit(q, sig, w) == Append(q, << sig, w >>)

\* the last run of worker w went through all posts and download_post
\* returned for every post it wanted
RanToEnd(w) ==
  \A k \in PostIds : result[w][k] \in {"downloaded", "duplicate", "error", "skipped_kind"}

\* ----------------------------------------------------- worker construction
\* InstagramDownloadWorker(keyword, download_path, download_videos,
\* download_photos), the signal connections and start() of lines 708-725,
\* by a start handler that passes the arguments __init__ accepts (photos
\* wanted, videos as chosen).  Jobs on the directory follow one another: the
\* earlier worker has ended, its signals have been delivered, and its object
\* is dropped when instagram_worker is reassigned.
StartWorker(w) ==
  /\ Alive
  /\ pc[w] = "none"
  /\ ~load_raises(hash_file)
  /\ \A v \in Workers : v < w => pc[v] = "done"
  /\ gui_queue = << >> /\ gui_pc = "idle"
  /\ insta_download_button
  /\ \E dv \in BOOLEAN :
       /\ download_videos' = [v \in Workers |-> IF v = w THEN dv ELSE TRUE]
       /\ rerun' = [v \in Workers |->
                      /\ v = w
                      /\ \E u \in Workers :
                           u < w /\ RanToEnd(u) /\ download_videos[u] = dv]
  /\ is_running' = [v \in Workers |-> v = w]
  /\ downloaded_hashes' =
       [v \in Workers |-> IF v = w THEN load_hashes(hash_file) ELSE EmptyIndex]
  /\ logged_in' = [v \in Workers |-> FALSE]
  /\ session' = [v \in Workers |-> "none"]
  /\ total_downloaded' = [v \in Workers |-> 0]
  /\ cur' = [v \in Workers |-> 0]
  /\ instagram_worker' = w
  /\ insta_download_button' = FALSE
  /\ insta_stop_button' = TRUE
  /\ pc' = [pc EXCEPT ![w] = "begin"]
  /\ runs' = [v \in Workers |-> IF v = w THEN 1 ELSE 0]
  /\ stop_pc' = [v \in Workers |-> "never"]
  /\ stop_cur' = [v \in Workers |-> 0]
  /\ attempts' = [v \in Workers |-> NoAttempts]
  /\ waits' = [v \in Workers |-> << >>]
  /\ n_finished' = [v \in Workers |-> 0]
  /\ dir_at_start' = [dir_at_start EXCEPT ![w] = DOMAIN dir]
  /\ keys_at_start' = [keys_at_start EXCEPT ![w] = DOMAIN load_hashes(hash_file)]
  /\ todo' = [v \in Workers |-> {}]
  /\ rl_retry' = [v \in Workers |-> 0]
  /\ rl_delay' = [v \in Workers |-> 0]
  /\ stop_calls' = [v \in Workers |-> 0]
  /\ raised' = [v \in Workers |-> NoRaise]
  /\ result' = [v \in Workers |-> NoResult]
  /\ errors' = [v \in Workers |-> {}]
  /\ UNCHANGED << fsvars, session_file, gui_queue, gui_pc >>
  /\ UNCHANGED << tvars, lvars >>

\* The same start when load_hashes raises in DownloadWorker.__init__ (line
\* 88): the buttons are switched (lines 702-703), the exception leaves the
\* slot and no worker object is made.
StartWorkerRaises(w) ==
  /\ Alive
  /\ pc[w] = "none"
  /\ load_raises(hash_file)
  /\ \A v \in Workers : v < w => pc[v] = "done"
  /\ gui_queue = << >> /\ gui_pc = "idle"
  /\ insta_download_button
  /\ pc' = [pc EXCEPT ![w] = "ctor_raised"]
  /\ insta_download_button' = FALSE
  /\ insta_stop_button' = TRUE
  /\ UNCHANGED << fsvars, is_running, downloaded_hashes, logged_in, session, session_file, download_videos,
                  total_downloaded, cur, todo, rl_retry, rl_delay, svars,
                  instagram_worker, gui_pc, hvars >>
  /\ UNCHANGED << tvars, lvars >>

\* ------------------------------------------------ InstagramDownloadWorker.run
\* run() without the is_logged_in check of line 220
RunBegin_NoLoginCheck(w) ==
  /\ Alive
  /\ pc[w] = "begin"
  /\ total_downloaded' = [total_downloaded EXCEPT ![w] = 0]
  /\ cur' = [cur EXCEPT ![w] = 0]
  /\ attempts' = [attempts EXCEPT ![w] = NoAttempts]
  /\ result' = [result EXCEPT ![w] = NoResult]
  /\ errors' = [errors EXCEPT ![w] = {}]
  /\ pc' = [pc EXCEPT ![w] = "search"]
  /\ UNCHANGED << fsvars, is_running, downloaded_hashes, logged_in, session, session_file, download_videos,
                  todo, rl_retry, rl_delay, svars, gvars, runs, stop_calls,
                  stop_pc, stop_cur, raised, waits, dir_at_start, keys_at_start, rerun >>
  /\ UNCHANGED << tvars, lvars >>

\* lines 216-222: total_downloaded = 0; not logged in -> login_required, return
RunBegin(w) ==
  /\ Alive
  /\ pc[w] = "begin"
  /\ total_downloaded' = [total_downloaded EXCEPT ![w] = 0]
  /\ cur' = [cur EXCEPT ![w] = 0]
  /\ attempts' = [attempts EXCEPT ![w] = NoAttempts]
  /\ result' = [result EXCEPT ![w] = NoResult]
  /\ errors' = [errors EXCEPT ![w] = {}]
  /\ IF ~logged_in[w]
     THEN /\ gui_queue' = Emit(gui_queue, "login_required", w)
          /\ pc' = [pc EXCEPT ![w] = "finally"]
     ELSE /\ pc' = [pc EXCEPT ![w] = "search"]
          /\ UNCHANGED gui_queue
  /\ UNCHANGED << fsvars, is_running, downloaded_hashes, logged_in, session, session_file, download_videos,
                  todo, rl_retry, rl_delay, n_finished, gvars, runs, stop_calls,
                  stop_pc, stop_cur, raised, waits, dir_at_start, keys_at_start, rerun >>
  /\ UNCHANGED << tvars, lvars >>

SearchOutcomes == {"posts", "empty", "rate_limit", "login_required", "error"}

\* The content source raises LoginRequiredException: the session the worker
\* presented has expired.  The session file holds that same session; no
\* handler removes or rewrites the file (lines 258-260, 302-304).
SessionExpired(w) ==
  /\ session' = [session EXCEPT ![w] = "expired"]
  /\ session_file' = "expired"

\* lines 227-243 and the handlers of lines 298-307: the profile lookup, then
\* search_instagram; the search returns the posts, returns nothing
\* (error.emit, return), or raises TooManyRequestsException (handle_rate_limit),
\* LoginRequiredException (login_required.emit) or another exception
\* (error.emit).
Search(w) ==
  /\ Alive
  /\ pc[w] = "search"
  /\ \E o \in SearchOutcomes :
       CASE o = "posts" ->
              /\ cur' = [cur EXCEPT ![w] = 1]
              /\ pc' = [pc EXCEPT ![w] = "loop"]
              /\ UNCHANGED << rl_retry, rl_delay, gui_queue, session, session_file,
                              errors >>
         [] o = "rate_limit" ->
              /\ rl_retry' = [rl_retry EXCEPT ![w] = 0]
              /\ rl_delay' = [rl_delay EXCEPT ![w] = FirstDelay]
              /\ pc' = [pc EXCEPT ![w] = "rl_check"]
              /\ UNCHANGED << cur, gui_queue, session, session_file, errors >>
         [] o = "login_required" ->
              /\ SessionExpired(w)
              /\ gui_queue' = Emit(gui_queue, "login_required", w)
              /\ pc' = [pc EXCEPT ![w] = "finally"]
              /\ UNCHANGED << cur, rl_retry, rl_delay, errors >>
         [] o \in {"empty", "error"} ->
              /\ errors' = [errors EXCEPT ![w] = @ \cup {"search"}]
              /\ pc' = [pc EXCEPT ![w] = "finally"]
              /\ UNCHANGED << cur, rl_retry, rl_delay, gui_queue, session, session_file >>
  /\ UNCHANGED << fsvars, is_running, downloaded_hashes, logged_in, download_videos,
                  total_downloaded, todo, n_finished, gvars, runs, stop_calls, stop_pc,
                  stop_cur, attempts, result, raised, waits, dir_at_start,
                  keys_at_start, rerun >>
  /\ UNCHANGED << tvars, lvars >>

\* LoopHead without "if not self.is_running: break"
LoopHead_NoStopCheck(w) ==
  /\ Alive
  /\ pc[w] = "loop"
  /\ pc' = [pc EXCEPT ![w] = IF cur[w] > NPosts THEN "finally" ELSE "item"]
  /\ raised' = [raised EXCEPT ![w] = NoRaise]
  /\ UNCHANGED << fsvars, is_running, downloaded_hashes, logged_in, session, session_file, download_videos,
                  total_downloaded, cur, todo, rl_retry, rl_delay, svars, gvars, runs,
                  stop_calls, stop_pc, stop_cur, attempts, result, waits,
                  dir_at_start, keys_at_start, rerun, errors >>
  /\ UNCHANGED << tvars, lvars >>

\* lines 245-247: for post in posts: if not self.is_running: break
LoopHead(w) ==
  /\ Alive
  /\ pc[w] = "loop"
  /\ pc' = [pc EXCEPT ![w] =
              IF cur[w] > NPosts THEN "finally"
              ELSE IF ~is_running[w] THEN "finally"
              ELSE "item"]
  /\ raised' = [raised EXCEPT ![w] = NoRaise]
  /\ UNCHANGED << fsvars, is_running, downloaded_hashes, logged_in, session, session_file, download_videos,
                  total_downloaded, cur, todo, rl_retry, rl_delay, svars, gvars, runs,
                  stop_calls, stop_pc, stop_cur, attempts, result, waits,
                  dir_at_start, keys_at_start, rerun, errors >>
  /\ UNCHANGED << tvars, lvars >>

\* lines 250-254 and 291: the kind filter; an unwanted post is passed over
\* (time.sleep(2), next post), a wanted one goes on to download_post.
ItemBegin(w) ==
  /\ Alive
  /\ pc[w] = "item"
  /\ IF Wanted(w, cur[w])
     THEN /\ pc' = [pc EXCEPT ![w] = "fetching"]
          /\ UNCHANGED << cur, result >>
     ELSE /\ result' = [result EXCEPT ![w][cur[w]] = "skipped_kind"]
          /\ cur' = [cur EXCEPT ![w] = @ + 1]
          /\ pc' = [pc EXCEPT ![w] = "loop"]
  /\ UNCHANGED << fsvars, is_running, downloaded_hashes, logged_in, session, session_file, download_videos,
                  total_downloaded, todo, rl_retry, rl_delay, svars, gvars, runs,
                  stop_calls, stop_pc, stop_cur, attempts, raised, waits,
                  dir_at_start, keys_at_start, rerun, errors >>
  /\ UNCHANGED << tvars, lvars >>

FetchOutcomes == {"ok", "transient", "rate_limit", "login_required", "unwritable"}

\* lines 256-264: download_post returns (the post's files are in the
\* directory) or raises: a network error, TooManyRequestsException,
\* LoginRequiredException, or the OSError of a directory it cannot write to;
\* any exception is logged and the loop continues with the next post.
FetchEnd(w) ==
  /\ Alive
  /\ pc[w] = "fetching"
  /\ attempts' = [attempts EXCEPT ![w][cur[w]] = @ + 1]
  /\ \E o \in FetchOutcomes :
       IF o = "ok"
       THEN /\ dir' = WritePost(dir, cur[w])
            /\ todo' = [todo EXCEPT ![w] = ListPattern(dir', cur[w])]
            /\ pc' = [pc EXCEPT ![w] = "files"]
            /\ UNCHANGED << cur, result, raised, session, session_file >>
       ELSE /\ IF o = "login_required" THEN SessionExpired(w)
               ELSE UNCHANGED << session, session_file >>
            /\ result' = [result EXCEPT ![w][cur[w]] = "fetch_error"]
            /\ raised' = [raised EXCEPT ![w] = << cur[w], o >>]
            /\ cur' = [cur EXCEPT ![w] = @ + 1]
            /\ pc' = [pc EXCEPT ![w] = "loop"]
            /\ UNCHANGED << dir, todo >>
  /\ UNCHANGED << os_name, file_names, hash_file, is_running, downloaded_hashes, logged_in,
                  download_videos, total_downloaded, rl_retry, rl_delay, svars, gvars,
                  runs, stop_calls, stop_pc, stop_cur, waits, dir_at_start,
                  keys_at_start, rerun, errors >>
  /\ UNCHANGED << tvars, lvars >>

\* the handler of lines 293-296 with break in place of continue
ItemError_Break(w) ==
  /\ errors' = [errors EXCEPT ![w] = @ \cup {cur[w]}]
  /\ result' = [result EXCEPT ![w][cur[w]] = "error"]
  /\ todo' = [todo EXCEPT ![w] = {}]
  /\ pc' = [pc EXCEPT ![w] = "finally"]
  /\ UNCHANGED << cur, dir, downloaded_hashes, total_downloaded >>

\* lines 293-296: except Exception inside the loop: error.emit, continue
ItemError(w) ==
  /\ errors' = [errors EXCEPT ![w] = @ \cup {cur[w]}]
  /\ result' = [result EXCEPT ![w][cur[w]] = "error"]
  /\ cur' = [cur EXCEPT ![w] = @ + 1]
  /\ todo' = [todo EXCEPT ![w] = {}]
  /\ pc' = [pc EXCEPT ![w] = "loop"]
  /\ UNCHANGED << dir, downloaded_hashes, total_downloaded >>

\* lines 266-286: one file of downloaded_files.  A new hash: rename to
\* new_name, insert, count.  A known hash: remove the file.  calculate_hash
\* of a file that is gone raises; os.rename onto an existing name replaces it
\* on POSIX and raises FileExistsError on Windows.
ProcessFile(w) ==
  /\ Alive
  /\ pc[w] = "files"
  /\ todo[w] # {}
  /\ \E i \in todo[w] :
       LET k == cur[w]
           f == TempName(k, i)
       IN IF f \notin DOMAIN dir
          THEN ItemError(w)
          ELSE
          LET h == calculate_hash(dir[f])
              new == NewName(k, i, h)
          IN IF h \notin DOMAIN downloaded_hashes[w]
             THEN IF new \in DOMAIN dir /\ os_name = "nt"
                  THEN ItemError(w)
                  ELSE /\ dir' = WriteFile(RemoveFile(dir, f), new, dir[f])
                       /\ downloaded_hashes' =
                            [downloaded_hashes EXCEPT ![w] =
                               InsertHash(@, h,
                                 [shortcode |-> Posts[k].shortcode,
                                  type |-> IF Posts[k].is_video THEN "video" ELSE "photo",
                                  file_path |-> new])]
                       /\ total_downloaded' = [total_downloaded EXCEPT ![w] = @ + 1]
                       /\ result' = [result EXCEPT ![w][k] = "downloaded"]
                       /\ todo' = [todo EXCEPT ![w] = @ \ {i}]
                       /\ UNCHANGED << cur, pc, errors >>
             ELSE /\ dir' = RemoveFile(dir, f)
                  /\ result' = [result EXCEPT ![w][k] =
                                  IF @ = "none" THEN "duplicate" ELSE @]
                  /\ todo' = [todo EXCEPT ![w] = @ \ {i}]
                  /\ UNCHANGED << cur, pc, downloaded_hashes, total_downloaded, errors >>
  /\ UNCHANGED << os_name, file_names, hash_file, is_running, logged_in, session,
                  session_file, download_videos, rl_retry, rl_delay, svars, gvars, runs,
                  stop_calls, stop_pc, stop_cur, attempts, raised, waits, dir_at_start,
                  keys_at_start, rerun >>
  /\ UNCHANGED << tvars, lvars >>

\* lines 288-291: save_hashes(), download_progress.emit, time.sleep(2)
SaveHashes(w) ==
  /\ Alive
  /\ pc[w] = "files"
  /\ todo[w] = {}
  /\ hash_file' = save_hashes(downloaded_hashes[w])
  /\ cur' = [cur EXCEPT ![w] = @ + 1]
  /\ pc' = [pc EXCEPT ![w] = "loop"]
  /\ UNCHANGED << os_name, file_names, dir, is_running, downloaded_hashes, logged_in, session, session_file,
                  download_videos, total_downloaded, todo, rl_retry, rl_delay, svars,
                  gvars, hvars >>
  /\ UNCHANGED << tvars, lvars >>

\* the finally block without finished.emit()
Finally_NoEmit(w) ==
  /\ Alive
  /\ pc[w] = "finally"
  /\ pc' = [pc EXCEPT ![w] = "done"]
  /\ UNCHANGED << fsvars, is_running, downloaded_hashes, logged_in, session, session_file, download_videos,
                  total_downloaded, cur, todo, rl_retry, rl_delay, svars, gvars, hvars >>
  /\ UNCHANGED << tvars, lvars >>

\* lines 308-316: finally: the closing progress line and finished.emit()
Finally(w) ==
  /\ Alive
  /\ pc[w] = "finally"
  /\ n_finished' = [n_finished EXCEPT ![w] = @ + 1]
  /\ gui_queue' = Emit(gui_queue, "finished", w)
  /\ pc' = [pc EXCEPT ![w] = "done"]
  /\ UNCHANGED << fsvars, is_running, downloaded_hashes, logged_in, session, session_file, download_videos,
                  total_downloaded, cur, todo, rl_retry, rl_delay, gvars, hvars >>
  /\ UNCHANGED << tvars, lvars >>

\* -------------------------------- InstagramDownloadWorker.handle_rate_limit
\* lines 321-324: for retry in range(max_retries): if not self.is_running: break
RateLimitCheck(w) ==
  /\ Alive
  /\ pc[w] = "rl_check"
  /\ pc' = [pc EXCEPT ![w] =
              IF rl_retry[w] >= MaxRetries \/ ~is_running[w]
              THEN "finally" ELSE "rl_sleep"]
  /\ UNCHANGED << fsvars, is_running, downloaded_hashes, logged_in, session, session_file, download_videos,
                  total_downloaded, cur, todo, rl_retry, rl_delay, svars, gvars, runs,
                  stop_calls, stop_pc, stop_cur, attempts, result, raised, waits,
                  dir_at_start, keys_at_start, rerun, errors >>
  /\ UNCHANGED << tvars, lvars >>

\* lines 325-326 with delay += 60 in place of delay *= 2
RateLimitSleepEnd_Linear(w) ==
  /\ Alive
  /\ pc[w] = "rl_sleep"
  /\ waits' = [waits EXCEPT ![w] =
                 Append(@, [asked |-> rl_delay[w], slept |-> rl_delay[w]])]
  /\ rl_delay' = [rl_delay EXCEPT ![w] = @ + FirstDelay]
  /\ rl_retry' = [rl_retry EXCEPT ![w] = @ + 1]
  /\ pc' = [pc EXCEPT ![w] = "rl_check"]
  /\ UNCHANGED << fsvars, is_running, downloaded_hashes, logged_in, session, session_file, download_videos,
                  total_downloaded, cur, todo, svars, gvars, runs, stop_calls,
                  stop_pc, stop_cur, attempts, result, raised, dir_at_start,
                  keys_at_start, rerun, errors >>
  /\ UNCHANGED << tvars, lvars >>

\* lines 325-326: time.sleep(delay) returns once delay seconds have passed;
\* delay *= 2
RateLimitSleepEnd(w) ==
  /\ Alive
  /\ pc[w] = "rl_sleep"
  /\ waits' = [waits EXCEPT ![w] =
                 Append(@, [asked |-> rl_delay[w], slept |-> rl_delay[w]])]
  /\ rl_delay' = [rl_delay EXCEPT ![w] = @ * 2]
  /\ rl_retry' = [rl_retry EXCEPT ![w] = @ + 1]
  /\ pc' = [pc EXCEPT ![w] = "rl_check"]
  /\ UNCHANGED << fsvars, is_running, downloaded_hashes, logged_in, session, session_file, download_videos,
                  total_downloaded, cur, todo, svars, gvars, runs, stop_calls,
                  stop_pc, stop_cur, attempts, result, raised, dir_at_start,
                  keys_at_start, rerun, errors >>
  /\ UNCHANGED << tvars, lvars >>

\* ------------------------------------------------------- DownloadWorker.stop
\* stop() that flips the flag: self.is_running = not self.is_running
StopEffect_Toggle(w) ==
  /\ is_running' = [is_running EXCEPT ![w] = ~@]
  /\ stop_calls' = [stop_calls EXCEPT ![w] = @ + 1]
  /\ stop_pc' = [stop_pc EXCEPT ![w] = IF @ = "never" THEN pc[w] ELSE @]
  /\ stop_cur' = [stop_cur EXCEPT ![w] = IF stop_pc[w] = "never" THEN cur[w] ELSE @]

\* line 113: self.is_running = False
StopEffect(w) ==
  /\ is_running' = [is_running EXCEPT ![w] = FALSE]
  /\ stop_calls' = [stop_calls EXCEPT ![w] = @ + 1]
  /\ stop_pc' = [stop_pc EXCEPT ![w] = IF @ = "never" THEN pc[w] ELSE @]
  /\ stop_cur' = [stop_cur EXCEPT ![w] = IF stop_pc[w] = "never" THEN cur[w] ELSE @]

\* stop() called on the worker object by the holder of instagram_worker
stop(w) ==
  /\ Alive
  /\ instagram_worker = w
  /\ stop_calls[w] < MaxStops
  /\ StopEffect(w)
  /\ UNCHANGED << fsvars, pc, downloaded_hashes, logged_in, session, session_file, download_videos,
                  total_downloaded, cur, todo, rl_retry, rl_delay, svars, gvars, runs,
                  attempts, result, raised, waits, dir_at_start, keys_at_start, rerun, errors >>
  /\ UNCHANGED << tvars, lvars >>

\* ---------------------------------------------------- SocialMediaDownloader
\* lines 799-802: the stop button; the log line goes to the text widget
stop_instagram_download ==
  /\ Alive
  /\ insta_stop_button /\ gui_pc = "idle"
  /\ instagram_worker # 0
  /\ stop_calls[instagram_worker] < MaxStops
  /\ StopEffect(instagram_worker)
  /\ UNCHANGED << fsvars, pc, downloaded_hashes, logged_in, session, session_file, download_videos,
                  total_downloaded, cur, todo, rl_retry, rl_delay, svars, gvars, runs,
                  attempts, result, raised, waits, dir_at_start, keys_at_start, rerun, errors >>
  /\ UNCHANGED << tvars, lvars >>

\* lines 694-714: the start button (an empty keyword returns at once,
\* changing nothing).  The buttons are switched, then the
\* constructor is called with five positional arguments where it takes four:
\* TypeError, no worker is made.  PyQt either prints the traceback and goes
\* on, or aborts the process: then only the files are left.
start_instagram_download ==
  /\ Alive
  /\ insta_download_button /\ gui_pc = "idle"
  /\ \/ /\ insta_download_button' = FALSE
        /\ insta_stop_button' = TRUE
        /\ UNCHANGED << fsvars, wvars, svars, instagram_worker, gui_pc, hvars >>
     \/ /\ gui_pc' = "aborted"
        /\ pc' = [w \in Workers |-> "none"]
        /\ is_running' = [w \in Workers |-> FALSE]
        /\ downloaded_hashes' = [w \in Workers |-> EmptyIndex]
        /\ logged_in' = [w \in Workers |-> FALSE]
        /\ session' = [w \in Workers |-> "none"]
        /\ download_videos' = [w \in Workers |-> TRUE]
        /\ total_downloaded' = [w \in Workers |-> 0]
        /\ cur' = [w \in Workers |-> 0]
        /\ todo' = [w \in Workers |-> {}]
        /\ rl_retry' = [w \in Workers |-> 0]
        /\ rl_delay' = [w \in Workers |-> 0]
        /\ gui_queue' = << >>
        /\ n_finished' = [w \in Workers |-> 0]
        /\ instagram_worker' = 0
        /\ insta_download_button' = FALSE
        /\ insta_stop_button' = FALSE
        /\ runs' = [w \in Workers |-> 0]
        /\ stop_calls' = [w \in Workers |-> 0]
        /\ stop_pc' = [w \in Workers |-> "never"]
        /\ stop_cur' = [w \in Workers |-> 0]
        /\ attempts' = [w \in Workers |-> NoAttempts]
        /\ result' = [w \in Workers |-> NoResult]
        /\ raised' = [w \in Workers |-> NoRaise]
        /\ waits' = [w \in Workers |-> << >>]
        /\ dir_at_start' = [w \in Workers |-> {}]
        /\ keys_at_start' = [w \in Workers |-> {}]
        /\ rerun' = [w \in Workers |-> FALSE]
        /\ errors' = [w \in Workers |-> {}]
        /\ UNCHANGED << fsvars, session_file >>
  /\ UNCHANGED << tvars, lvars >>

\* lines 809-812
instagram_download_finished ==
  /\ insta_download_button' = TRUE
  /\ insta_stop_button' = FALSE

\* delivery of a queued finished signal to instagram_download_finished; the
\* event loop of an open login dialog delivers it as well
DeliverFinished ==
  /\ Alive
  /\ gui_queue # << >>
  /\ Head(gui_queue)[1] = "finished"
  /\ gui_pc \in {"idle", "dialog"}
  /\ gui_queue' = Tail(gui_queue)
  /\ instagram_download_finished
  /\ UNCHANGED << fsvars, wvars, n_finished, instagram_worker, gui_pc, hvars >>
  /\ UNCHANGED << tvars, lvars >>

\* lines 726-728: delivery of login_required: the login dialog opens
show_instagram_login ==
  /\ Alive
  /\ gui_queue # << >>
  /\ Head(gui_queue)[1] = "login_required"
  /\ gui_pc = "idle"
  /\ gui_queue' = Tail(gui_queue)
  /\ gui_pc' = "dialog"
  /\ UNCHANGED << fsvars, wvars, n_finished, instagram_worker, insta_download_button,
                  insta_stop_button, hvars >>
  /\ UNCHANGED << tvars, lvars >>

DialogResults == {"rejected", "empty", "login_ok", "login_failed"}

\* lines 148-160, returning True: load_session_from_file installs what the
\* session file holds; without a file, login makes a new session and
\* save_session_to_file stores it.
set_login_credentials(w) ==
  /\ logged_in' = [logged_in EXCEPT ![w] = TRUE]
  /\ IF session_file # "absent"
     THEN /\ session' = [session EXCEPT ![w] = session_file]
          /\ UNCHANGED session_file
     ELSE /\ session' = [session EXCEPT ![w] = "valid"]
          /\ session_file' = "valid"

\* QThread.start(): starts run() unless the thread is still running
ThreadStart(w) ==
  IF pc[w] = "done"
  THEN /\ pc' = [pc EXCEPT ![w] = "begin"]
       /\ runs' = [runs EXCEPT ![w] = @ + 1]
  ELSE UNCHANGED << pc, runs >>

\* lines 728-747 with set_login_credentials (147-164): the dialog closes
LoginDialogDone ==
  /\ Alive
  /\ gui_pc = "dialog"
  /\ gui_pc' = "idle"
  /\ \E r \in DialogResults :
       CASE r = "rejected" ->
              UNCHANGED << pc, runs, logged_in, session, session_file,
                           insta_download_button, insta_stop_button, errors >>
         [] r = "empty" ->
              /\ instagram_download_finished
              /\ UNCHANGED << pc, runs, logged_in, session, session_file, errors >>
         [] r = "login_failed" ->
              /\ errors' = [errors EXCEPT ![instagram_worker] = @ \cup {"login"}]
              /\ instagram_download_finished
              /\ UNCHANGED << pc, runs, logged_in, session, session_file >>
         [] r = "login_ok" ->
              /\ runs[instagram_worker] < MaxRuns
              /\ set_login_credentials(instagram_worker)
              /\ UNCHANGED errors
              /\ ThreadStart(instagram_worker)
              /\ UNCHANGED << insta_download_button, insta_stop_button >>
  /\ UNCHANGED << fsvars, is_running, downloaded_hashes, download_videos,
                  total_downloaded, cur, todo, rl_retry, rl_delay, svars,
                  instagram_worker, stop_calls, stop_pc, stop_cur, attempts, result, raised,
                  waits, dir_at_start, keys_at_start, rerun >>
  /\ UNCHANGED << tvars, lvars >>

\* ----------------------------------------------------------- specification
WorkerStep(w) ==
  \/ StartWorker(w)
  \/ StartWorkerRaises(w)
  \/ RunBegin(w)
  \/ Search(w)
  \/ LoopHead(w)
  \/ ItemBegin(w)
  \/ FetchEnd(w)
  \/ ProcessFile(w)
  \/ SaveHashes(w)
  \/ Finally(w)
  \/ RateLimitCheck(w)
  \/ RateLimitSleepEnd(w)
  \/ stop(w)

Next ==
  \/ \E w \in Workers : WorkerStep(w)
  \/ stop_instagram_download
  \/ start_instagram_download
  \/ DeliverFinished
  \/ show_instagram_login
  \/ LoginDialogDone

Spec == Init /\ [][Next]_vars

\* ------------------------------------------------- two workers at one time
\* The start button is enabled again as soon as the finished signal of a
\* run is delivered, also the run that only asked for the login (line 222,
\* then 316): a second worker can then be constructed and started while the
\* first is resumed and runs.  The first worker object lives on while its
\* run() executes; instagram_worker names the second.  The starts followed
\* here are those made while the earlier worker has processed the files of
\* a post and is about to flush (line 288).
StartConcurrent(w) ==
  /\ Alive
  /\ pc[w] = "none"
  /\ ~load_raises(hash_file)
  /\ \A v \in Workers : v < w => pc[v] = "files" /\ todo[v] = {}
  /\ gui_pc = "idle"
  /\ insta_download_button
  /\ \E dv \in BOOLEAN :
       download_videos' = [download_videos EXCEPT ![w] = dv]
  /\ is_running' = [is_running EXCEPT ![w] = TRUE]
  /\ downloaded_hashes' = [downloaded_hashes EXCEPT ![w] = load_hashes(hash_file)]
  /\ instagram_worker' = w
  /\ insta_download_button' = FALSE
  /\ insta_stop_button' = TRUE
  /\ pc' = [pc EXCEPT ![w] = "begin"]
  /\ runs' = [runs EXCEPT ![w] = 1]
  /\ dir_at_start' = [dir_at_start EXCEPT ![w] = DOMAIN dir]
  /\ keys_at_start' = [keys_at_start EXCEPT ![w] = DOMAIN load_hashes(hash_file)]
  /\ UNCHANGED << fsvars, logged_in, session, session_file, total_downloaded, cur, todo, rl_retry, rl_delay,
                  svars, gui_pc, stop_calls, stop_pc, stop_cur, attempts, result,
                  raised, waits, rerun, errors >>
  /\ UNCHANGED << tvars, lvars >>

\* a fresh directory on POSIX, the library's names matching file_pattern
InitTwo ==
  /\ Init
  /\ os_name = "posix"
  /\ file_names = "pattern"
  /\ ~hash_file.exists

WorkerStepTwo(w) ==
  \/ StartConcurrent(w)
  \/ RunBegin(w)
  \/ Search(w)
  \/ LoopHead(w)
  \/ ItemBegin(w)
  \/ FetchEnd(w)
  \/ ProcessFile(w)
  \/ SaveHashes(w)
  \/ Finally(w)
  \/ RateLimitCheck(w)
  \/ RateLimitSleepEnd(w)

NextTwo ==
  \/ \E w \in Workers : WorkerStepTwo(w)
  \/ DeliverFinished
  \/ show_instagram_login
  \/ LoginDialogDone

SpecTwo == InitTwo /\ [][NextTwo]_vars

\* ------------------------------------------------------------- TikTok tab
\* Attributes of a TikTokDownloadWorker object: those DownloadWorker.__init__
\* sets (lines 84-88) and those TikTokDownloadWorker.__init__ sets (lines
\* 331-332).  L, keyword, download_videos and download_photos are set by
\* InstagramDownloadWorker.__init__ only (lines 120-136).
TikTokAttrs ==
  { "platform", "download_path", "is_running", "hash_file", "downloaded_hashes",
    "keyword_or_url", "download_type" }

\* what the user can have typed into tiktok_search_input, stripped
TikTokInputs == {"", "dance", "https://tiktok/v/1"}

\* lines 768-797: the TikTok start button.  Empty input: a message box,
\* nothing else.  Otherwise the controls are switched and the worker is
\* constructed, connected and started; when load_hashes raises in the
\* constructor (line 88) the exception leaves the slot after the controls
\* were switched, and PyQt goes on or aborts the process.
start_tiktok_download ==
  /\ Alive
  /\ tiktok_download_button
  /\ \E input_text \in TikTokInputs, url_mode \in BOOLEAN, unreadable \in BOOLEAN :
       IF input_text = ""
       THEN UNCHANGED << gui_pc, tvars >>
       ELSE IF unreadable
       THEN \/ /\ tiktok_download_button' = FALSE
               /\ tiktok_stop_button' = TRUE
               /\ tiktok_search_input' = FALSE
               /\ tiktok_log_text' = << >>
               /\ UNCHANGED << gui_pc, tiktok_worker, tiktok_pc, tiktok_is_running,
                               keyword_or_url, download_type, tiktok_queue,
                               tiktok_signals, tiktok_calls >>
            \/ /\ gui_pc' = "aborted"
               /\ tiktok_worker' = 0
               /\ tiktok_pc' = "none"
               /\ tiktok_is_running' = FALSE
               /\ keyword_or_url' = ""
               /\ download_type' = "keyword"
               /\ tiktok_download_button' = FALSE
               /\ tiktok_stop_button' = FALSE
               /\ tiktok_search_input' = FALSE
               /\ tiktok_log_text' = << >>
               /\ tiktok_queue' = << >>
               /\ tiktok_signals' = << >>
               /\ tiktok_calls' = << >>
       ELSE /\ tiktok_download_button' = FALSE
            /\ tiktok_stop_button' = TRUE
            /\ tiktok_search_input' = FALSE
            /\ tiktok_log_text' = << >>
            /\ tiktok_worker' = 1
            /\ tiktok_is_running' = TRUE
            /\ keyword_or_url' = input_text
            /\ download_type' = IF url_mode THEN "url" ELSE "keyword"
            /\ tiktok_pc' = "begin"
            /\ tiktok_signals' = << >>
            /\ tiktok_calls' = << >>
            /\ UNCHANGED << gui_pc, tiktok_queue >>
  /\ UNCHANGED << fsvars, wvars, svars, instagram_worker, insta_download_button,
                  insta_stop_button, hvars, lvars >>

\* signal.emit() of the TikTok worker: queued to the GUI thread, and noted
TikTokEmit(sig) ==
  /\ tiktok_queue' = Append(tiktok_queue, sig)
  /\ tiktok_signals' = Append(tiktok_signals, sig)

\* lines 370-377 and 486-488: run() reads self.L; the object has no such
\* attribute, the AttributeError is caught by the last handler, which emits
\* error ("Genel hata: ...").  With the attribute, and logged in, the run
\* would go on to the search.
TikTokRunBegin ==
  /\ Alive
  /\ tiktok_pc = "begin"
  /\ IF "L" \notin TikTokAttrs
     THEN /\ TikTokEmit("error_general")
          /\ tiktok_pc' = "finally"
          /\ UNCHANGED tiktok_calls
     ELSE /\ TikTokEmit("progress")
          /\ tiktok_calls' = Append(tiktok_calls, "search")
          /\ tiktok_pc' = "search"
  /\ UNCHANGED << fsvars, wvars, svars, gvars, hvars, lvars, tiktok_worker,
                  tiktok_is_running, keyword_or_url, download_type,
                  tiktok_download_button, tiktok_stop_button, tiktok_search_input,
                  tiktok_log_text >>

\* lines 489-492: finally: total_downloaded is 0 here, so no closing
\* progress line; finished.emit()
TikTokFinally ==
  /\ Alive
  /\ tiktok_pc = "finally"
  /\ TikTokEmit("finished")
  /\ tiktok_pc' = "done"
  /\ UNCHANGED << fsvars, wvars, svars, gvars, hvars, lvars, tiktok_worker,
                  tiktok_is_running, keyword_or_url, download_type,
                  tiktok_download_button, tiktok_stop_button, tiktok_search_input,
                  tiktok_log_text, tiktok_calls >>

\* lines 815-818
tiktok_download_finished ==
  /\ tiktok_download_button' = TRUE
  /\ tiktok_stop_button' = FALSE
  /\ tiktok_search_input' = TRUE
  /\ tiktok_log_text' = Append(tiktok_log_text, "completed")

\* delivery of the queued signals: error and progress to log_message (lines
\* 821-826), finished to tiktok_download_finished
TikTokDeliver ==
  /\ Alive
  /\ tiktok_queue # << >>
  /\ tiktok_queue' = Tail(tiktok_queue)
  /\ IF Head(tiktok_queue) = "finished"
     THEN tiktok_download_finished
     ELSE /\ tiktok_log_text' = Append(tiktok_log_text, Head(tiktok_queue))
          /\ UNCHANGED << tiktok_download_button, tiktok_stop_button, tiktok_search_input >>
  /\ UNCHANGED << fsvars, wvars, svars, gvars, hvars, lvars, tiktok_worker, tiktok_pc,
                  tiktok_is_running, keyword_or_url, download_type, tiktok_signals,
                  tiktok_calls >>

\* lines 804-807: the TikTok stop button
stop_tiktok_download ==
  /\ Alive
  /\ tiktok_stop_button
  /\ Len(SelectSeq(tiktok_log_text, LAMBDA m : m = "stopped")) < MaxStops
  /\ IF tiktok_worker # 0
     THEN /\ tiktok_is_running' = FALSE
          /\ tiktok_log_text' = Append(tiktok_log_text, "stopped")
     ELSE UNCHANGED << tiktok_is_running, tiktok_log_text >>
  /\ UNCHANGED << fsvars, wvars, svars, gvars, hvars, lvars, tiktok_worker, tiktok_pc,
                  keyword_or_url, download_type, tiktok_download_button,
                  tiktok_stop_button, tiktok_search_input, tiktok_queue,
                  tiktok_signals, tiktok_calls >>

\* the TikTok tab alone, the Instagram tab left untouched
InitTikTok ==
  /\ Init
  /\ os_name = "posix"
  /\ file_names = "pattern"
  /\ ~hash_file.exists

NextTikTok ==
  \/ start_tiktok_download
  \/ TikTokRunBegin
  \/ TikTokFinally
  \/ TikTokDeliver
  \/ stop_tiktok_download

SpecTikTok == InitTikTok /\ [][NextTikTok]_vars

\* ---------------------- the search retry loop of TikTokDownloadWorker.run
\* Lines 379-419 taken as a block, entered with a self.L and a self.keyword
\* on the object (run() of the class as it stands does not get here, see
\* TikTokRunBegin).  The content source answers each call or raises.
max_retries == 3    \* line 379
retry_delay == 5    \* line 380

\* self.keyword: a hashtag ("#...") or a name
Keywords == {"#dance", "dance"}

\* what one passage of the try block (lines 384-400) can come to: the route
\* (hashtag posts of a "#" keyword; profile posts; hashtag posts after the
\* profile lookup raised, lines 394-397) and what the last call made of it
SearchResults(kw) ==
  IF kw = "#dance"
  THEN { << "hashtag", r >> : r \in {"found", "empty", "rate_limit", "error"} }
  ELSE { << "profile", r >> : r \in {"found", "empty"} }
       \cup { << "fallback", r >> : r \in {"found", "empty", "rate_limit", "error"} }

\* wait_time with the exponent as its factor: retry_delay * 2 * attempt
wait_time_Linear(e, a) == retry_delay * 2 * a

\* wait_time of lines 404 and 411, attempt counted from 0
wait_time(e, a) ==
  IF e = "rate_limit" THEN retry_delay * (2 ^ a) ELSE retry_delay * (a + 1)

\* lines 379-381, with the keyword the object holds
SearchLoopEnter ==
  /\ Alive
  /\ search_pc = "none"
  /\ \E kw \in Keywords : keyword' = kw
  /\ attempt' = 0
  /\ posts' = "None"
  /\ search_tried' = << >>
  /\ search_waits' = << >>
  /\ search_pc' = "try"
  /\ UNCHANGED << fsvars, wvars, svars, gvars, hvars, tvars >>

\* lines 383-415: one passage of the loop body up to the break, the next
\* passage, the sleep or the raise
SearchAttempt ==
  /\ Alive
  /\ search_pc = "try"
  /\ \E o \in SearchResults(keyword) :
       /\ search_tried' = Append(search_tried, o)
       /\ CASE o[2] = "found" ->
                 /\ posts' = "found"
                 /\ search_pc' = "found"
                 /\ UNCHANGED << attempt, search_waits >>
            [] o[2] = "empty" ->
                 /\ posts' = "empty"
                 /\ IF attempt < max_retries - 1
                    THEN attempt' = attempt + 1 /\ search_pc' = "try"
                    ELSE search_pc' = "not_found" /\ UNCHANGED attempt
                 /\ UNCHANGED search_waits
            [] o[2] \in {"rate_limit", "error"} ->
                 /\ IF attempt < max_retries - 1
                    THEN /\ search_waits' =
                              Append(search_waits,
                                     [after |-> attempt + 1,
                                      wait |-> wait_time(o[2], attempt)])
                         /\ search_pc' = "sleep"
                    ELSE /\ search_pc' = "raised"
                         /\ UNCHANGED search_waits
                 /\ UNCHANGED << attempt, posts >>
  /\ UNCHANGED << fsvars, wvars, svars, gvars, hvars, tvars, keyword >>

\* lines 406 and 413: time.sleep(wait_time) returns; next passage
SearchSleepEnd ==
  /\ Alive
  /\ search_pc = "sleep"
  /\ attempt' = attempt + 1
  /\ search_pc' = "try"
  /\ UNCHANGED << fsvars, wvars, svars, gvars, hvars, tvars, keyword, posts,
                  search_tried, search_waits >>

\* lines 417-419: the loop ended without posts: error.emit, return
SearchNotFound ==
  /\ Alive
  /\ search_pc = "not_found"
  /\ search_pc' = "returned"
  /\ UNCHANGED << fsvars, wvars, svars, gvars, hvars, tvars, keyword, attempt, posts,
                  search_tried, search_waits >>

NextSearch ==
  \/ SearchLoopEnter
  \/ SearchAttempt
  \/ SearchSleepEnd
  \/ SearchNotFound

SpecSearch == InitTikTok /\ [][NextSearch]_vars

\* ------------------------------------------------------------------ claims
\* names of the files in dir that belong to post k (temporary or stored)
FilesOfPost(k) == { n \in DOMAIN dir : n[2] = Posts[k].shortcode }

\* stored files (under their final name) that hold bytes with digest h
StoredFiles(h) ==
  { n \in DOMAIN dir : n[1] = "instagram" /\ calculate_hash(dir[n]) = h }

\* the worker is between two posts, or its run is over
AtItemBoundary(w) == pc[w] \in {"loop", "finally", "done"}

\* C1: when a first job has run to its end and a second job with the same
\* query and settings has then run to its end, never stopped, on the same
\* directory against the same content source, the directory holds no file it did not hold when the
\* second job began, and the hash index (in memory and on file) has the keys
\* it had then.
C1_DedupIdempotence ==
  ( /\ pc[2] = "done"
    /\ rerun[2] /\ RanToEnd(2)
    /\ stop_pc[2] = "never" )
  => /\ DOMAIN dir \subseteq dir_at_start[2]
     /\ DOMAIN downloaded_hashes[2] = keys_at_start[2]
     /\ DOMAIN hash_file.data = keys_at_start[2]

\* C2: between posts, every hash in the index has exactly one stored file in
\* the directory that holds the bytes with that hash.
C2_OneFilePerHash ==
  \A w \in Workers :
    AtItemBoundary(w) =>
      \A h \in DOMAIN downloaded_hashes[w] : Cardinality(StoredFiles(h)) = 1

\* C3: when stop() was called while a post was being fetched, the job ends
\* with no file of that post in the directory (beyond what was there before
\* the job) and without that post counted as downloaded.
C3_CancelLeavesNoFile ==
  \A w \in Workers :
    (pc[w] = "done" /\ stop_pc[w] = "fetching") =>
      /\ FilesOfPost(stop_cur[w]) \subseteq dir_at_start[w]
      /\ result[w][stop_cur[w]] # "downloaded"

\* C4: a worker emits finished at most once over its job, the suspension for
\* login and the resumption included.
C4_OneTerminalEvent == \A w \in Workers : n_finished[w] <= 1

\* C5: when download_post has raised a transient error for a post and the
\* loop has gone on, download_post has been called 3 times for that post.
C5_ThreeAttempts ==
  \A w \in Workers :
    (raised[w][2] = "transient" /\ pc[w] = "loop") =>
      /\ attempts[w][raised[w][1]] = MaxRetries
      /\ cur[w] = raised[w][1] + 1

\* C6: when download_post has raised a rate-limit error for a post and the
\* job is past the handling of it, the job has made exactly one backoff wait
\* and is still at that post.
C6_RateLimitResume ==
  \A w \in Workers :
    (raised[w][2] = "rate_limit" /\ pc[w] \notin {"rl_check", "rl_sleep"}) =>
      /\ cur[w] = raised[w][1]
      /\ Len(waits[w]) = 1

\* number of posts whose processing had begun when stop() was first called
BegunAtStop(w) ==
  IF stop_pc[w] \in {"item", "fetching", "files"} THEN stop_cur[w]
  ELSE IF stop_cur[w] > 0 THEN stop_cur[w] - 1 ELSE 0

\* index entries the worker has added since it loaded the index
NewEntries(w) == DOMAIN downloaded_hashes[w] \ keys_at_start[w]

\* C7: once stop() has been called, a post whose processing had not begun by
\* then is never fetched, gets no file in the directory and no index entry.
C7_NoNewItemAfterStop ==
  \A w \in Workers :
    stop_pc[w] # "never" =>
      \A k \in PostIds :
        k > BegunAtStop(w) =>
          /\ attempts[w][k] = 0
          /\ result[w][k] = "none"
          /\ FilesOfPost(k) \subseteq dir_at_start[w]
          /\ \A h \in NewEntries(w) :
               downloaded_hashes[w][h].shortcode # Posts[k].shortcode

\* a post after the one in progress at stop() exists, the one in progress
\* was completed, and the run is over
C7_Witness ==
  \E w \in Workers :
    /\ stop_pc[w] = "fetching" /\ stop_cur[w] < NPosts
    /\ result[w][stop_cur[w]] = "downloaded"
    /\ pc[w] = "done"

\* C8: a backoff sleep during which stop() was called ends before the time
\* asked for has passed.
C8_WaitInterrupted ==
  \A w \in Workers :
    (stop_pc[w] = "rl_sleep" /\ pc[w] # "rl_sleep") =>
      waits[w][Len(waits[w])].slept < waits[w][Len(waits[w])].asked

\* C9: a stop() call leaves is_running false and changes nothing else: no
\* signal, no file, no index entry, no position; on a worker already
\* stopped it changes nothing at all.
C9_StopIdempotent ==
  [][ \A w \in Workers :
        stop_calls'[w] = stop_calls[w] + 1 =>
          /\ is_running'[w] = FALSE
          /\ UNCHANGED << fsvars, pc, downloaded_hashes, logged_in, session, session_file, download_videos,
                          total_downloaded, cur, todo, rl_retry, rl_delay, svars,
                          gvars >>
          /\ (~is_running[w] => UNCHANGED is_running) ]_vars

\* stop() has been called twice on a worker whose run had ended
C9_Witness ==
  \E w \in Workers :
    stop_pc[w] = "done" /\ stop_calls[w] = 2 /\ n_finished[w] >= 1

\* C10: between posts and at the end of the run, the index file holds what
\* the worker's in-memory index holds.
C10_FlushedAtBoundary ==
  \A w \in Workers :
    (w = instagram_worker /\ AtItemBoundary(w)) =>
      hash_file.data = downloaded_hashes[w]

\* C11: constructing a worker on an index file that is corrupt or partially
\* written does not raise, and the worker starts with an index without keys.
C11_CorruptIndexRecovery ==
  \A w \in Workers :
    /\ pc[w] # "ctor_raised"
    /\ (pc[w] = "begin" /\ runs[w] = 1 /\ hash_file.text # "json") =>
         downloaded_hashes[w] = EmptyIndex

\* C12: over jobs run one after another on the directory, every step that
\* changes the index file keeps each hash the file held, with the record it
\* had.
C12_IndexOnlyGrows ==
  [][ (hash_file.exists /\ hash_file.text = "json") =>
        \A h \in DOMAIN hash_file.data :
          /\ h \in DOMAIN hash_file'.data
          /\ hash_file'.data[h] = hash_file.data[h] ]_vars

\* a second job has flushed an index that holds what it loaded and more
C12_Witness ==
  /\ pc[2] # "none"
  /\ keys_at_start[2] # {}
  /\ hash_file.text = "json"
  /\ keys_at_start[2] \subseteq DOMAIN hash_file.data
  /\ DOMAIN hash_file.data # keys_at_start[2]

\* C13: with two workers running at one time on the directory, no step
\* that changes the index file drops a hash the file held.
C13_NoLostFlush ==
  [][ (hash_file.exists /\ hash_file.text = "json") =>
        DOMAIN hash_file.data \subseteq DOMAIN hash_file'.data ]_vars

\* lines 311-314: what the finally block reports: the number of files
\* stored when it is positive, otherwise a line without a number
final_summary(w) ==
  IF total_downloaded[w] > 0
  THEN [c \in {"downloaded"} |-> total_downloaded[w]]
  ELSE [c \in {} |-> 0]

\* number of posts of the run that ended in one of the outcomes os
Count(w, os) == Cardinality({ k \in PostIds : result[w][k] \in os })

\* C14: a run of a logged-in worker that has ended has reported a summary with the four counts
\* downloaded, skipped-duplicate, skipped-kind and errored, equal to the
\* numbers of posts of the run that ended in each outcome.
C14_FinalSummary ==
  \A w \in Workers :
    (pc[w] = "done" /\ w = instagram_worker /\ logged_in[w]) =>
      final_summary(w) =
        [c \in {"downloaded", "skipped_duplicate", "skipped_kind", "errored"} |->
           CASE c = "downloaded" -> Count(w, {"downloaded"})
             [] c = "skipped_duplicate" -> Count(w, {"duplicate"})
             [] c = "skipped_kind" -> Count(w, {"skipped_kind"})
             [] c = "errored" -> Count(w, {"error", "fetch_error"})]

\* C15: when download_post has raised LoginRequiredException, the run
\* fetches nothing more: it is on its way out, with login_required emitted.
C15_AuthExpirySurfaces ==
  \A w \in Workers :
    raised[w][2] = "login_required" =>
      /\ pc[w] \in {"finally", "done"}
      /\ \/ pc[w] = "done"
         \/ \E i \in 1..Len(gui_queue) : gui_queue[i] = << "login_required", w >>

C17_ExpiredSessionNotReinstalled ==
  [][ \A w \in Workers :
        (gui_pc = "dialog" /\ gui_pc' = "idle" /\ logged_in'[w]
           /\ instagram_worker = w /\ runs'[w] # runs[w]) =>
          session'[w] = "valid" ]_vars

\* lines 550-556: numbers the user can have typed into insta_limit_input
\* (QIntValidator(1, 1000)) before the start.  start_instagram_download
\* (lines 694-725) does not read the field and the worker has no limit
\* parameter (line 118): a run is the same whatever the field holds.
LimitInputs == 1..2

\* C18: whatever limit was typed in, a run records at most that many posts
\* as downloaded.
C18_ItemLimit ==
  \A max_items \in LimitInputs :
    \A w \in Workers : Count(w, {"downloaded"}) <= max_items

\* C19: when download_post has failed on a destination it cannot write to,
\* the job fails at once: the run is on its way out and fetches no later
\* post.
C19_UnwritableIsFatal ==
  \A w \in Workers :
    raised[w][2] = "unwritable" => pc[w] \in {"finally", "done"}

\* C20: an error raised by download_post for a post has been notified with
\* error.emit for that post.
C20_NoSwallowedError ==
  \A w \in Workers :
    raised[w][2] # "none" => raised[w][1] \in errors[w]

\* the positions of run() from the first post on
InLoop == {"loop", "item", "fetching", "files", "finally", "done"}

\* the run has dealt with post k: passed it over for its kind, or called
\* download_post for it
Processed(w, k) == attempts[w][k] > 0 \/ result[w][k] # "none"

\* C21: in a run on which stop() was never called, the posts of the search
\* result are taken in order and none is left out, whatever became of the
\* posts before it: every post before the current one has been dealt with
\* (also when it ended in an error of download_post, of the hashing or of
\* the rename), no post after it has, and the run ends only past the last
\* post.
C21_ErrorsDoNotStopJob ==
  \A w \in Workers :
    (stop_pc[w] = "never" /\ pc[w] \in InLoop /\ cur[w] >= 1) =>
      /\ \A k \in PostIds :
           /\ k < cur[w] => Processed(w, k)
           /\ k > cur[w] => ~Processed(w, k)
      /\ pc[w] \in {"finally", "done"} => cur[w] = NPosts + 1

\* a run never stopped has ended after download_post failed for its first
\* post and the rename failed for its second; its third post was stored
C21_Witness ==
  \E w \in Workers :
    /\ stop_pc[w] = "never" /\ pc[w] = "done"
    /\ result[w][1] = "fetch_error"
    /\ result[w][2] = "error"
    /\ result[w][3] = "downloaded"

\* the worker is inside handle_rate_limit
InRateLimit(w) == pc[w] \in {"rl_check", "rl_sleep"}

\* C22: handle_rate_limit makes at most 3 waits, the i-th of 60 * 2^(i-1)
\* seconds (60, 120, 240); it starts a wait only when is_running holds at
\* the check before it; and it returns: each of its steps is the check that
\* leaves or goes to a wait, or a wait that ends and adds one to the count
\* of waits, which never exceeds 3.
C22_RateLimitBounded ==
  [][ \A w \in Workers :
        /\ Len(waits'[w]) <= MaxRetries
        /\ \A i \in 1..Len(waits'[w]) : waits'[w][i].asked = FirstDelay * 2^(i - 1)
        /\ InRateLimit(w)' =>
             /\ rl_retry'[w] = Len(waits'[w])
             /\ rl_delay'[w] = FirstDelay * 2^rl_retry'[w]
             /\ pc'[w] = "rl_sleep" => rl_retry'[w] < MaxRetries
        /\ (pc[w] # "rl_sleep" /\ pc'[w] = "rl_sleep") =>
             pc[w] = "rl_check" /\ is_running[w]
        /\ (pc[w] = "rl_check" /\ pc'[w] # pc[w] /\ Alive') =>
             \/ pc'[w] = "rl_sleep"
             \/ pc'[w] = "finally" /\ (rl_retry[w] = MaxRetries \/ ~is_running[w])
        /\ (pc[w] = "rl_sleep" /\ pc'[w] # pc[w] /\ Alive') =>
             /\ pc'[w] = "rl_check"
             /\ rl_retry'[w] = rl_retry[w] + 1 ]_vars

\* handle_rate_limit has returned after three waits, and the run is over
C22_Witness ==
  \E w \in Workers :
    /\ pc[w] = "done"
    /\ Len(waits[w]) = MaxRetries
    /\ waits[w][MaxRetries].asked = 240

\* the k-th attempt ended in an exception
FailedAttempt(k) == search_tried[k][2] \in {"rate_limit", "error"}

\* C23: the search is attempted at most 3 times; the k-th attempt, when it
\* fails and k is 1 or 2, is followed by one wait of 5 * 2^(k-1) seconds and
\* no attempt fails without one; when the 3rd attempt fails there is no wait
\* and no further attempt: the exception leaves the loop, and it leaves the
\* loop in no other case.
C23_SearchBackoff ==
  /\ Len(search_tried) <= max_retries
  /\ \A i \in 1..Len(search_waits) :
       /\ search_waits[i].after \in 1..(max_retries - 1)
       /\ search_waits[i].after <= Len(search_tried)
       /\ FailedAttempt(search_waits[i].after)
       /\ search_waits[i].wait = retry_delay * 2^(search_waits[i].after - 1)
       /\ \A j \in 1..Len(search_waits) :
            search_waits[j].after = search_waits[i].after => j = i
  /\ \A k \in 1..Len(search_tried) :
       (FailedAttempt(k) /\ k < max_retries) =>
         \E i \in 1..Len(search_waits) : search_waits[i].after = k
  /\ search_pc = "raised" <=>
       (Len(search_tried) = max_retries /\ FailedAttempt(max_retries))

\* the first attempt was rate limited, the second failed otherwise, both
\* were waited for, and the third failed: the exception has left the loop
C23_Witness ==
  /\ search_pc = "raised"
  /\ Len(search_tried) = 3
  /\ search_tried[1][2] = "rate_limit"
  /\ search_tried[2][2] = "error"
  /\ Len(search_waits) = 2
  /\ search_waits[2].wait = 10

\* line 289: the value run() passes to download_progress.emit, which
\* update_progress (lines 828-832) sets on the progress bar as it is
download_progress_value(w) == total_downloaded[w]

\* percentage of the posts of the search result dealt with, the current one
\* included
ShareProcessed(w) == (cur[w] * 100) \div NPosts

\* C24: the value emitted on download_progress after a post lies in 0..100
\* and is the percentage of the posts of the search result processed so far.
C24_ProgressIsPercentage ==
  [][ \A w \in Workers :
        (pc[w] = "files" /\ todo[w] = {} /\ pc'[w] = "loop") =>
          /\ download_progress_value(w) \in 0..100
          /\ download_progress_value(w) = ShareProcessed(w) ]_vars

\* C25: when the run of a TikTok worker started with a non-empty keyword or
\* URL has ended and stop was not called on it, the run has called the
\* content source (for a URL, download_video), and the first thing it
\* emitted was not the general error.
C25_TikTokAcquires ==
  (tiktok_pc = "done" /\ keyword_or_url # "" /\ tiktok_is_running) =>
    /\ tiktok_calls # << >>
    /\ download_type = "url" =>
         \E i \in 1..Len(tiktok_calls) : tiktok_calls[i] = "download_video"
    /\ tiktok_signals[1] # "error_general"

\* the thread of worker w is inside run()
InRun(w) == pc[w] \notin {"none", "ctor_raised", "done"}

\* signals of worker w that the step has added to the queue
Emitted(w) ==
  IF Len(gui_queue') > Len(gui_queue) /\ gui_queue'[Len(gui_queue')][2] = w
  THEN {gui_queue'[Len(gui_queue')][1]}
  ELSE {}

\* C26: every run() of a worker emits finished once, and last: the number
\* of finished signals of a worker is the number of its run() invocations
\* that have ended; the step that ends a run is the one that emits finished;
\* and the worker emits nothing between that step and its next run().
C26_FinishedOncePerRun ==
  [][ \A w \in Workers :
        /\ n_finished'[w] = (IF InRun(w)' THEN runs'[w] - 1 ELSE runs'[w])
        /\ (InRun(w) /\ pc'[w] = "done") =>
             /\ n_finished'[w] = n_finished[w] + 1
             /\ Emitted(w) = {"finished"}
        /\ (InRun(w) /\ InRun(w)') => "finished" \notin Emitted(w)
        /\ ~InRun(w) => Emitted(w) = {} ]_vars

\* a worker's first run asked for the login and its second went through the
\* posts; both have ended and both finished signals were delivered
C26_Witness ==
  \E w \in Workers :
    /\ pc[w] = "done" /\ runs[w] = 2 /\ n_finished[w] = 2
    /\ cur[w] = NPosts + 1
    /\ gui_queue = << >>

\* C27: total_downloaded is the number of keys the worker has added to its
\* in-memory index (zero from the start of run(), and no keys are added
\* before it); a step inside a run never lowers it, so the values passed to
\* download_progress.emit do not decrease; and the closing message, when
\* it has a count, has the number of new index entries.
C27_CountMatchesIndex ==
  [][ \A w \in Workers :
        /\ InRun(w)' =>
             IF pc'[w] = "begin"
             THEN NewEntries(w)' = {}
             ELSE total_downloaded'[w] = Cardinality(NewEntries(w)')
        /\ (InRun(w) /\ pc[w] # "begin" /\ InRun(w)') =>
             total_downloaded'[w] >= total_downloaded[w]
        /\ (pc'[w] = "done" /\ instagram_worker' = w /\ total_downloaded'[w] > 0) =>
             final_summary(w)' =
               [c \in {"downloaded"} |-> Cardinality(NewEntries(w)')] ]_vars

\* a second job on the directory has ended after adding two keys to an index
\* that held keys when it was loaded
C27_Witness ==
  /\ pc[2] = "done"
  /\ keys_at_start[2] # {}
  /\ total_downloaded[2] = 2
  /\ Cardinality(NewEntries(2)) = 2

\* C28: between posts, two different hashes of the index never have the
\* same file_path, and the file_path of every entry the worker has added
\* names a file in the directory.
C28_DistinctExistingPaths ==
  \A w \in Workers :
    AtItemBoundary(w) =>
      /\ \A h, g \in DOMAIN downloaded_hashes[w] :
           h # g => downloaded_hashes[w][h].file_path # downloaded_hashes[w][g].file_path
      /\ \A h \in NewEntries(w) : downloaded_hashes[w][h].file_path \in DOMAIN dir

\* a finished signal of worker w is queued to the GUI thread
FinishedQueued(w) ==
  \E i \in 1..Len(gui_queue) : gui_queue[i] = << "finished", w >>

\* C29: while the process lives, the start button is disabled only when
\* instagram_worker names a worker whose run is in progress or whose
\* finished signal is on its way, and the stop button is enabled whenever a
\* worker's run is in progress.
C29_ControlsReturnToIdle ==
  Alive =>
    /\ ~insta_download_button =>
         /\ instagram_worker # 0
         /\ InRun(instagram_worker) \/ FinishedQueued(instagram_worker)
    /\ \A w \in Workers : InRun(w) => insta_stop_button

====
